---------------------------- MODULE Spec2Model ----------------------------
(***************************************************************************)
(* Model of pvder/DER_components.py: the set-up pipeline of SolarPVDER     *)
(* (setup_DER and the methods it calls) and the construction of PVModule   *)
(* (__init__, fit_MPP_poly, Iph_calc).                                     *)
(*                                                                         *)
(* Python values are records [ty, s, n]: ty is the Python type name, s the *)
(* text of a str, n the number of an int/bool.  A Python dict is a TLA+    *)
(* function from its keys; an attribute or local that has not been         *)
(* assigned yet is the empty sequence <<>>, an assigned one is <<value>>.  *)
(***************************************************************************)
EXTENDS Integers, Sequences, FiniteSets, TLC

\* ------------------------------------------------------------------ values
Str(x) == [ty |-> "str", s |-> x, n |-> 0]
Num(k) == [ty |-> "int", s |-> "", n |-> k]
Bool(b) == [ty |-> "bool", s |-> "", n |-> IF b THEN 1 ELSE 0]
DictV == [ty |-> "dict", s |-> "", n |-> 0]
NoneV == [ty |-> "NoneType", s |-> "", n |-> 0]

EmptyDict == <<>>
Unset == <<>>
Some(v) == <<v>>
IsSet(o) == o # <<>>
Get(o) == o[1]

\* isinstance(v, types): bool is a subclass of int in Python.
IsInstance(v, types) ==
    \/ v.ty \in types
    \/ v.ty = "bool" /\ "int" \in types

\* Python truthiness of a str/int/bool/None value (if derParentId:).
Truthy(v) ==
    CASE v.ty = "str" -> v.s # ""
      [] v.ty \in {"int", "bool"} -> v.n # 0
      [] v.ty = "NoneType" -> FALSE
      [] OTHER -> TRUE

\* int(x/1e3): truncation towards zero.
IntDiv1e3(k) == IF k >= 0 THEN k \div 1000 ELSE -((-k) \div 1000)

\* ------------------------------------------------- specification registry
string_type == {"str"}

DER_argument_spec ==
    [derId |-> [default_value |-> NoneV, type |-> string_type],
     powerRating |-> [default_value |-> NoneV, type |-> {"int", "float"}],
     VrmsRating |-> [default_value |-> NoneV, type |-> {"int", "float"}],
     Vdcrated |-> [default_value |-> NoneV, type |-> {"int", "float"}],
     gridModel |-> [default_value |-> NoneV, type |-> {"Grid"}],
     verbosity |-> [default_value |-> Str("INFO"), type |-> string_type],
     identifier |-> [default_value |-> Str(""), type |-> string_type],
     derConfig |-> [default_value |-> DictV, type |-> {"dict"}],
     gridVoltagePhaseA |-> [default_value |-> NoneV, type |-> {"complex"}],
     gridVoltagePhaseB |-> [default_value |-> NoneV, type |-> {"complex"}],
     gridVoltagePhaseC |-> [default_value |-> NoneV, type |-> {"complex"}],
     gridFrequency |-> [default_value |-> NoneV, type |-> {"int", "float"}],
     standAlone |-> [default_value |-> Bool(TRUE), type |-> {"bool"}],
     steadyStateInitialization |-> [default_value |-> Bool(TRUE), type |-> {"bool"}],
     allowUnbalancedM |-> [default_value |-> Bool(FALSE), type |-> {"bool"}],
     ia0 |-> [default_value |-> NoneV, type |-> {"complex"}],
     xa0 |-> [default_value |-> NoneV, type |-> {"complex"}],
     ua0 |-> [default_value |-> NoneV, type |-> {"complex"}],
     xDC0 |-> [default_value |-> NoneV, type |-> {"float"}],
     xP0 |-> [default_value |-> NoneV, type |-> {"float"}],
     xQ0 |-> [default_value |-> NoneV, type |-> {"float"}]]

SpecKeys == DOMAIN DER_argument_spec

\* --------------------------------------------------------------- templates
\* A template: the sections (components) it declares, and the fields of its
\* basic_specs section and its initial_states section that check_basic_specs
\* reads.
ThreePhase == "SolarPVDERThreePhase"
SinglePhase == "SolarPVDERSinglePhase"
ConstantVdc == "SolarPVDERThreePhaseConstantVdc"

Components == {"basic_specs", "module_parameters", "initial_states"}

Template(nph, phases, node, states) ==
    [components |-> Components, n_phases |-> nph, phases |-> phases,
     n_ODE |-> node, initial_states |-> states]

\* The registries the model draws from: a consistent one, one whose
\* three-phase phase-name list is short, one whose three-phase initial-state
\* vector is short.  ConstantVdc is a host class with no template.
TemplateRegistries ==
    LET single == Template(1, <<"a">>, 3, <<"iaR", "iaI", "Vdc">>)
        abc == <<"a", "b", "c">>
        four == <<"iaR", "iaI", "Vdc", "xDC">>
    IN {[SolarPVDERThreePhase |-> Template(3, abc, 4, four),
         SolarPVDERSinglePhase |-> single],
        [SolarPVDERThreePhase |-> Template(3, <<"a", "b">>, 4, four),
         SolarPVDERSinglePhase |-> single],
        [SolarPVDERThreePhase |-> Template(3, abc, 4, <<"iaR", "iaI", "Vdc">>),
         SolarPVDERSinglePhase |-> single]}

HostClasses == {ThreePhase, SinglePhase, ConstantVdc}

\* ----------------------------------------------------------- config store
\* A configuration: top holds its scalar entries, sec its sections.
Cfg(top, sec) == [top |-> top, sec |-> sec]
EmptyCfg == Cfg(EmptyDict, EmptyDict)
Keys(cfg) == DOMAIN cfg.top \cup DOMAIN cfg.sec

BasicSpecs(mt, nph, node) ==
    ("model_type" :> Str(mt)) @@ ("n_phases" :> Num(nph)) @@ ("n_ODE" :> Num(node))

\* The JSON file read by read_config: device ID -> configuration.
\*   "50"  complete three-phase device, no parent
\*   "10"  inherits everything but n_phases from "50"
\*   "1"   inherits from "10", which inherits from "50" (a chain of two)
\*   "2"   declares parent_config as the empty string
\*   "3"   names a parent that is not in the file
\*   "4"   three-phase device whose parent "5" is single-phase
\*   "5"   complete single-phase device
\*   "6"   three-phase device declaring two phases
\*   "7"   complete three-phase device that also sets verbosity
\*   "8"   three-phase device declaring three ODEs
MainStore ==
    ("50" :> Cfg(EmptyDict,
                 ("basic_specs" :> BasicSpecs(ThreePhase, 3, 4))
                 @@ ("module_parameters" :> ("Np" :> Num(11)))))
    @@ ("10" :> Cfg("parent_config" :> Str("50"),
                    "basic_specs" :> ("n_phases" :> Num(3))))
    @@ ("1" :> Cfg("parent_config" :> Str("10"), EmptyDict))
    @@ ("2" :> Cfg("parent_config" :> Str(""),
                   "basic_specs" :> BasicSpecs(ThreePhase, 3, 4)))
    @@ ("4" :> Cfg("parent_config" :> Str("5"),
                   "basic_specs" :> BasicSpecs(ThreePhase, 3, 4)))
    @@ ("3" :> Cfg("parent_config" :> Str("99"),
                   "basic_specs" :> BasicSpecs(ThreePhase, 3, 4)))
    @@ ("5" :> Cfg(EmptyDict, "basic_specs" :> BasicSpecs(SinglePhase, 1, 3)))
    @@ ("6" :> Cfg(EmptyDict, "basic_specs" :> BasicSpecs(ThreePhase, 2, 4)))
    @@ ("7" :> Cfg("verbosity" :> Str("DEBUG"),
                   "basic_specs" :> BasicSpecs(ThreePhase, 3, 4)))
    @@ ("8" :> Cfg(EmptyDict, "basic_specs" :> BasicSpecs(ThreePhase, 3, 3)))

SmallStore ==
    ("50" :> Cfg(EmptyDict, "basic_specs" :> BasicSpecs(SinglePhase, 1, 3)))
    @@ ("10" :> Cfg("parent_config" :> Str("10"), EmptyDict))

ConfigFiles == {MainStore, SmallStore}

\* ----------------------------------------------------------------- kwargs
Absent == EmptyDict
Opt(key, values) == {Absent} \cup {key :> v : v \in values}

DerIdValues ==
    {Str(i) : i \in {"50", "10", "1", "2", "3", "4", "5", "6", "7", "8", "99"}}
      \cup {Num(50)}

KwargsChoices ==
    {a @@ b @@ c @@ d :
        a \in Opt("derId", DerIdValues),
        b \in Opt("powerRating", {Num(50000), Num(10500), Str("50kVA")}),
        c \in Opt("verbosity", {Str("DEBUG"), Num(1)}),
        d \in Opt("standAlone", {Bool(FALSE)})}

\* ------------------------------------------------------------------ errors
NoErr == [exc |-> "", what |-> "", names |-> {}]
Err(exc, what, names) == [exc |-> exc, what |-> what, names |-> names]
\* The outcome of a call: its value or the exception raised, and the IDs it
\* looked up in the configuration file.
Ok(v) == [ok |-> TRUE, val |-> v, err |-> NoErr, reads |-> <<>>]
Fail(e, v) == [ok |-> FALSE, val |-> v, err |-> e, reads |-> <<>>]
Reading(ids, r) == [r EXCEPT !.reads = ids]

\* ------------------------------------------------------- SolarPVDER methods
\* get_DER_id: derId if given, else the power rating in kVA as a string.
get_DER_id(kw) ==
    IF "derId" \in DOMAIN kw THEN Ok(kw["derId"])
    ELSE IF "powerRating" \in DOMAIN kw THEN
        IF IsInstance(kw["powerRating"], {"int", "float"})
        THEN Ok(Str(ToString(IntDiv1e3(kw["powerRating"].n))))
        ELSE Fail(Err("TypeError", "powerRating/1e3", {"powerRating"}), NoneV)
    ELSE Fail(Err("ValueError", "no DER id", {"derId", "powerRating"}), NoneV)

\* create_template: the template of the host's class, and a DER_config with
\* an empty section per template key.
create_template(reg, mt) ==
    IF mt \in DOMAIN reg
    THEN Ok([DER_design_template |-> reg[mt],
             DER_config |-> [c \in reg[mt].components |-> EmptyDict]])
    ELSE Fail(Err("KeyError", "DER_design_template", {mt}),
              [DER_design_template |-> Template(0, <<>>, 0, <<>>),
               DER_config |-> EmptyDict])

\* Mutant of get_DER_config: the KeyError lists the ID asked for instead of
\* the IDs available.
get_DER_config_lists_request(config_dict, derId) ==
    LET available_ids == DOMAIN config_dict
    IN IF derId.ty = "str" /\ derId.s \in available_ids
       THEN Reading(<<derId>>, Ok(config_dict[derId.s]))
       ELSE Reading(<<derId>>,
                    Fail(Err("KeyError", "DER configuration not found",
                             {derId.s}), EmptyCfg))

\* get_DER_config: the configuration stored under derId, or a KeyError that
\* lists the available IDs.
get_DER_config(config_dict, derId) ==
    LET available_ids == DOMAIN config_dict
    IN IF derId.ty = "str" /\ derId.s \in available_ids
       THEN Reading(<<derId>>, Ok(config_dict[derId.s]))
       ELSE Reading(<<derId>>,
                    Fail(Err("KeyError", "DER configuration not found",
                             available_ids), EmptyCfg))

\* The iteration order of DER_argument_spec.items().
SpecOrder ==
    <<"derId", "powerRating", "VrmsRating", "Vdcrated", "gridModel",
      "verbosity", "identifier", "derConfig", "gridVoltagePhaseA",
      "gridVoltagePhaseB", "gridVoltagePhaseC", "gridFrequency", "standAlone",
      "steadyStateInitialization", "allowUnbalancedM", "ia0", "xa0", "ua0",
      "xDC0", "xP0", "xQ0">>

CfgValue(cfg, key) == IF key \in DOMAIN cfg.top THEN cfg.top[key] ELSE DictV

\* One pass of the loop body of get_DER_arguments for `key`: where the value
\* comes from, or the exception raised.  In the config branch the type test
\* reads kwargs[key] (line 157), and key is not in kwargs there.
ArgumentSource(key, cfg, kw) ==
    IF key \in DOMAIN kw THEN
        IF IsInstance(kw[key], DER_argument_spec[key].type)
        THEN "kwargs" ELSE "ValueError"
    ELSE IF key \in Keys(cfg) THEN
        IF key \notin DOMAIN kw THEN "KeyError"
        ELSE IF IsInstance(kw[key], DER_argument_spec[key].type)
        THEN "config" ELSE "ValueError"
    ELSE IF DER_argument_spec[key].default_value # NoneV THEN "default"
    ELSE "omitted"

ArgumentValue(key, cfg, kw) ==
    CASE ArgumentSource(key, cfg, kw) = "kwargs" -> kw[key]
      [] ArgumentSource(key, cfg, kw) = "config" -> CfgValue(cfg, key)
      [] OTHER -> DER_argument_spec[key].default_value

get_DER_arguments(cfg, kw) ==
    LET raising == {i \in 1..Len(SpecOrder) :
                      ArgumentSource(SpecOrder[i], cfg, kw)
                        \in {"ValueError", "KeyError"}}
        first == CHOOSE i \in raising : \A j \in raising : i <= j
        kept == {k \in SpecKeys : ArgumentSource(k, cfg, kw) # "omitted"}
    IN IF raising = {}
       THEN Ok([k \in kept |-> ArgumentValue(k, cfg, kw)])
       ELSE Fail(Err(ArgumentSource(SpecOrder[first], cfg, kw),
                     "DER argument", {SpecOrder[first]}), EmptyDict)

get_DER_parent_id(cfg) ==
    IF "parent_config" \in Keys(cfg) THEN CfgValue(cfg, "parent_config")
    ELSE Str("")

\* Mutant of get_DER_parent_config: the parent is looked up even when no
\* parent ID was declared.
get_DER_parent_config_unguarded(config_dict, derParentId) ==
    LET available_ids == DOMAIN config_dict
    IN IF derParentId.ty = "str" /\ derParentId.s \in available_ids
       THEN Reading(<<derParentId>>, Ok(config_dict[derParentId.s]))
       ELSE Reading(<<derParentId>>,
                    Fail(Err("KeyError", "DER configuration not found",
                             available_ids), EmptyCfg))

\* get_DER_parent_config: one get_DER_config of the parent ID, if there is one.
get_DER_parent_config(config_dict, derParentId) ==
    IF Truthy(derParentId) THEN get_DER_config(config_dict, derParentId)
    ELSE Ok(EmptyCfg)

\* Mutant of fill_sections: every template section is reset to an empty
\* section, whether or not the configuration has it.
fill_sections_overwrite(template, cfg) ==
    [cfg EXCEPT !.sec =
        [c \in DOMAIN cfg.sec \cup template.components |->
            IF c \in template.components THEN EmptyDict ELSE cfg.sec[c]]]

\* cfg[c] for a section c of the configuration.
Section(cfg, c) == IF c \in DOMAIN cfg.sec THEN cfg.sec[c] ELSE EmptyDict

\* Lines 65-69 of setup_DER for one configuration: an empty section for
\* every template section the configuration lacks.
fill_sections(template, cfg) ==
    [cfg EXCEPT !.sec =
        [c \in DOMAIN cfg.sec \cup (template.components \ Keys(cfg)) |->
            IF c \in DOMAIN cfg.sec THEN cfg.sec[c] ELSE EmptyDict]]

\* Mutant of check_model_type: the parent's declaration is consulted first.
check_model_type_parent_first(mt, cfg, pcfg) ==
    IF "model_type" \in DOMAIN Section(pcfg, "basic_specs") THEN
        IF mt = Section(pcfg, "basic_specs")["model_type"].s THEN NoErr
        ELSE Err("ValueError", "model type mismatch", {"model_type"})
    ELSE IF "model_type" \in DOMAIN Section(cfg, "basic_specs") THEN
        IF mt = Section(cfg, "basic_specs")["model_type"].s THEN NoErr
        ELSE Err("ValueError", "model type mismatch", {"model_type"})
    ELSE Err("ValueError", "model type not found", {"model_type"})

check_model_type(mt, cfg, pcfg) ==
    IF "model_type" \in DOMAIN Section(cfg, "basic_specs") THEN
        IF mt = Section(cfg, "basic_specs")["model_type"].s THEN NoErr
        ELSE Err("ValueError", "model type mismatch", {"model_type"})
    ELSE IF "model_type" \in DOMAIN Section(pcfg, "basic_specs") THEN
        IF mt = Section(pcfg, "basic_specs")["model_type"].s THEN NoErr
        ELSE Err("ValueError", "model type mismatch", {"model_type"})
    ELSE Err("ValueError", "model type not found", {"model_type"})

\* update_DER_config (PVDER_SetupUtilities): the host's DER_config takes, per
\* template section, each parameter from the device configuration, else from
\* the parent configuration.
update_DER_config(template, cfg, pcfg) ==
    [c \in template.components |->
        [p \in DOMAIN Section(cfg, c) \cup DOMAIN Section(pcfg, c) |->
            IF p \in DOMAIN Section(cfg, c) THEN Section(cfg, c)[p]
            ELSE Section(pcfg, c)[p]]]

\* Mutant of check_basic_specs: the comparison with the length of the
\* template's phases list is left out.
check_basic_specs_no_phase_list(reg, mt, der_config) ==
    IF mt \in DOMAIN reg THEN
        IF "basic_specs" \notin DOMAIN der_config
        THEN Err("KeyError", "basic_specs", {"basic_specs"})
        ELSE IF "n_phases" \notin DOMAIN der_config["basic_specs"]
        THEN Err("KeyError", "n_phases", {"n_phases"})
        ELSE IF der_config["basic_specs"]["n_phases"] # Num(reg[mt].n_phases)
        THEN Err("ValueError", "n_phases", {"n_phases"})
        ELSE IF "n_ODE" \notin DOMAIN der_config["basic_specs"]
        THEN Err("KeyError", "n_ODE", {"n_ODE"})
        ELSE IF der_config["basic_specs"]["n_ODE"] # Num(reg[mt].n_ODE)
        THEN Err("ValueError", "n_ODE", {"n_ODE"})
        ELSE IF der_config["basic_specs"]["n_ODE"] # Num(Len(reg[mt].initial_states))
        THEN Err("ValueError", "initial_states", {"initial_states"})
        ELSE NoErr
    ELSE Err("ValueError", "invalid DER model class", {mt})

\* check_basic_specs: the four comparisons in the order of the code; the
\* error names the field compared.
check_basic_specs(reg, mt, der_config) ==
    IF mt \in DOMAIN reg THEN
        IF "basic_specs" \notin DOMAIN der_config
        THEN Err("KeyError", "basic_specs", {"basic_specs"})
        ELSE IF "n_phases" \notin DOMAIN der_config["basic_specs"]
        THEN Err("KeyError", "n_phases", {"n_phases"})
        ELSE IF der_config["basic_specs"]["n_phases"] # Num(reg[mt].n_phases)
        THEN Err("ValueError", "n_phases", {"n_phases"})
        ELSE IF der_config["basic_specs"]["n_phases"] # Num(Len(reg[mt].phases))
        THEN Err("ValueError", "phases", {"phases"})
        ELSE IF "n_ODE" \notin DOMAIN der_config["basic_specs"]
        THEN Err("KeyError", "n_ODE", {"n_ODE"})
        ELSE IF der_config["basic_specs"]["n_ODE"] # Num(reg[mt].n_ODE)
        THEN Err("ValueError", "n_ODE", {"n_ODE"})
        ELSE IF der_config["basic_specs"]["n_ODE"] # Num(Len(reg[mt].initial_states))
        THEN Err("ValueError", "initial_states", {"initial_states"})
        ELSE NoErr
    ELSE Err("ValueError", "invalid DER model class", {mt})

\* ------------------------------------------------------------------- state
VARIABLES
    templates,          \* templates.DER_design_template
    configFile,         \* the dictionary read_config returns for configFile
    kwargs,             \* the keyword arguments of setup_DER
    hostClass,          \* type(self).__name__
    self,               \* the host object's attributes
    DER_config,         \* local of setup_DER
    DER_arguments,      \* local of setup_DER
    DER_parent_config,  \* local of setup_DER
    pc,                 \* the statement of setup_DER to run next
    err,                \* the exception setup_DER raised
    ret,                \* the value setup_DER returned
    lastCheck,          \* outcome of a later call of check_basic_specs
    pre,                \* history: self when setup_DER was called
    kwargs0,            \* history: kwargs when setup_DER was called
    trace,              \* history: the statements of setup_DER run so far
    reads,              \* history: the IDs looked up in configFile
    cfgAtLoad,          \* history: DER_config as get_DER_config returned it
    parentAtLoad,       \* history: DER_parent_config as it was returned
    pv,                 \* the PVModule attributes
    pvArgs,             \* Sinsol, MPPT_ENABLE, parameter_ID, logger of the call
    pvpc,               \* the statement of PVModule.__init__ to run next
    Srange,             \* local of fit_MPP_poly
    samples,            \* history: (insolation, temperature) of each Vdcmpp
    pvErr               \* the exception PVModule.__init__ raised

setupVars ==
    <<templates, configFile, kwargs, hostClass, self, DER_config,
      DER_arguments, DER_parent_config, pc, err, ret, lastCheck, pre, kwargs0,
      trace, reads, cfgAtLoad, parentAtLoad>>
pvVars == <<pv, pvArgs, pvpc, Srange, samples, pvErr>>
vars == <<setupVars, pvVars>>

inputs == <<templates, configFile, kwargs, hostClass, pre, kwargs0>>

\* A freshly allocated host object: no attribute assigned yet.
NewHost ==
    [events |-> Unset, DER_model_type |-> Unset, parameter_ID |-> Unset,
     DER_design_template |-> Unset, DER_config |-> Unset,
     DER_parent_ID |-> Unset, name |-> Unset, logger |-> Unset]

\* The events object passed to setup_DER.
SimulationEvents == "events"

\* The statements of setup_DER, in the order of lines 49-75.
Stages ==
    <<"begin", "get_DER_id", "create_template", "get_DER_config",
      "get_DER_arguments", "name_instance", "initialize_logger",
      "get_DER_parent_id", "get_DER_parent_config", "fill_sections",
      "check_model_type", "update_DER_config", "check_basic_specs", "return">>

StageIndex(stage) == CHOOSE i \in 1..Len(Stages) : Stages[i] = stage

\* Mutant of NextStage: setup_DER returns straight after update_DER_config,
\* without the structural check.
NextStage_unchecked(stage) ==
    IF stage = "return" THEN "done"
    ELSE IF stage = "update_DER_config" THEN "return"
    ELSE Stages[StageIndex(stage) + 1]

\* The statement that follows `stage` when it does not raise.
NextStage(stage) ==
    IF stage = "return" THEN "done" ELSE Stages[StageIndex(stage) + 1]

SetupInit ==
    /\ templates \in TemplateRegistries
    /\ configFile \in ConfigFiles
    /\ kwargs \in KwargsChoices
    /\ hostClass \in HostClasses
    /\ self = NewHost
    /\ DER_config = Unset
    /\ DER_arguments = Unset
    /\ DER_parent_config = Unset
    /\ pc = "begin"
    /\ err = NoErr
    /\ ret = Unset
    /\ lastCheck = Unset
    /\ pre = self
    /\ kwargs0 = kwargs
    /\ trace = <<>>
    /\ reads = <<>>
    /\ cfgAtLoad = Unset
    /\ parentAtLoad = Unset

\* The statement `stage` ran and returned / raised e.
Advance(stage) ==
    /\ pc' = NextStage(stage)
    /\ trace' = Append(trace, stage)
    /\ err' = err
Raise(stage, e) ==
    /\ pc' = "failed"
    /\ trace' = Append(trace, stage)
    /\ err' = e
Outcome(stage, e) == IF e = NoErr THEN Advance(stage) ELSE Raise(stage, e)

\* Lines 49-50: self.events and self.DER_model_type.
begin_fields(s, ev, mt) ==
    [s EXCEPT !.events = Some(ev), !.DER_model_type = Some(mt)]

setup_begin ==
    /\ pc = "begin"
    /\ self' = begin_fields(self, SimulationEvents, hostClass)
    /\ Advance("begin")
    /\ UNCHANGED <<inputs, DER_config, DER_arguments, DER_parent_config, ret,
                   lastCheck, reads, cfgAtLoad, parentAtLoad, pvVars>>

\* Mutant of setup_get_DER_id: self.parameter_ID is assigned (None) before
\* the missing identifier is reported.
setup_get_DER_id_assigns_first ==
    /\ pc = "get_DER_id"
    /\ LET r == get_DER_id(kwargs)
       IN /\ self' = [self EXCEPT !.parameter_ID = Some(r.val)]
          /\ Outcome("get_DER_id", r.err)
    /\ UNCHANGED <<inputs, DER_config, DER_arguments, DER_parent_config, ret,
                   lastCheck, reads, cfgAtLoad, parentAtLoad, pvVars>>

\* Line 52.
setup_get_DER_id ==
    /\ pc = "get_DER_id"
    /\ LET r == get_DER_id(kwargs)
       IN /\ self' = IF r.ok THEN [self EXCEPT !.parameter_ID = Some(r.val)]
                     ELSE self
          /\ Outcome("get_DER_id", r.err)
    /\ UNCHANGED <<inputs, DER_config, DER_arguments, DER_parent_config, ret,
                   lastCheck, reads, cfgAtLoad, parentAtLoad, pvVars>>

\* Line 53.
setup_create_template ==
    /\ pc = "create_template"
    /\ LET r == create_template(templates, Get(self.DER_model_type))
       IN /\ self' = IF r.ok
                     THEN [self EXCEPT
                             !.DER_design_template = Some(r.val.DER_design_template),
                             !.DER_config = Some(r.val.DER_config)]
                     ELSE self
          /\ Outcome("create_template", r.err)
    /\ UNCHANGED <<inputs, DER_config, DER_arguments, DER_parent_config, ret,
                   lastCheck, reads, cfgAtLoad, parentAtLoad, pvVars>>

\* Line 55.
setup_get_DER_config ==
    /\ pc = "get_DER_config"
    /\ LET r == get_DER_config(configFile, Get(self.parameter_ID))
       IN /\ DER_config' = IF r.ok THEN Some(r.val) ELSE DER_config
          /\ cfgAtLoad' = IF r.ok THEN Some(r.val) ELSE cfgAtLoad
          /\ reads' = reads \o r.reads
          /\ Outcome("get_DER_config", r.err)
    /\ UNCHANGED <<inputs, self, DER_arguments, DER_parent_config, ret,
                   lastCheck, parentAtLoad, pvVars>>

\* Line 57.
setup_get_DER_arguments ==
    /\ pc = "get_DER_arguments"
    /\ LET r == get_DER_arguments(Get(DER_config), kwargs)
       IN /\ DER_arguments' = IF r.ok THEN Some(r.val) ELSE DER_arguments
          /\ Outcome("get_DER_arguments", r.err)
    /\ UNCHANGED <<inputs, self, DER_config, DER_parent_config, ret,
                   lastCheck, reads, cfgAtLoad, parentAtLoad, pvVars>>

\* Line 59: name_instance(DER_arguments['identifier']).
setup_name_instance ==
    /\ pc = "name_instance"
    /\ self' = [self EXCEPT !.name = Some(Get(DER_arguments)["identifier"])]
    /\ Advance("name_instance")
    /\ UNCHANGED <<inputs, DER_config, DER_arguments, DER_parent_config, ret,
                   lastCheck, reads, cfgAtLoad, parentAtLoad, pvVars>>

\* Line 60: initialize_logger(DER_arguments['verbosity']).
setup_initialize_logger ==
    /\ pc = "initialize_logger"
    /\ self' = [self EXCEPT !.logger = Some(Get(DER_arguments)["verbosity"])]
    /\ Advance("initialize_logger")
    /\ UNCHANGED <<inputs, DER_config, DER_arguments, DER_parent_config, ret,
                   lastCheck, reads, cfgAtLoad, parentAtLoad, pvVars>>

\* Line 62.
setup_get_DER_parent_id ==
    /\ pc = "get_DER_parent_id"
    /\ self' = [self EXCEPT
                  !.DER_parent_ID = Some(get_DER_parent_id(Get(DER_config)))]
    /\ Advance("get_DER_parent_id")
    /\ UNCHANGED <<inputs, DER_config, DER_arguments, DER_parent_config, ret,
                   lastCheck, reads, cfgAtLoad, parentAtLoad, pvVars>>

\* Line 63.
setup_get_DER_parent_config ==
    /\ pc = "get_DER_parent_config"
    /\ LET r == get_DER_parent_config(configFile, Get(self.DER_parent_ID))
       IN /\ DER_parent_config' = IF r.ok THEN Some(r.val) ELSE DER_parent_config
          /\ parentAtLoad' = IF r.ok THEN Some(r.val) ELSE parentAtLoad
          /\ reads' = reads \o r.reads
          /\ Outcome("get_DER_parent_config", r.err)
    /\ UNCHANGED <<inputs, self, DER_config, DER_arguments, ret, lastCheck,
                   cfgAtLoad, pvVars>>

\* Lines 65-69: both configurations are updated in place.
setup_fill_sections ==
    /\ pc = "fill_sections"
    /\ DER_config' =
          Some(fill_sections(Get(self.DER_design_template), Get(DER_config)))
    /\ DER_parent_config' =
          Some(fill_sections(Get(self.DER_design_template), Get(DER_parent_config)))
    /\ Advance("fill_sections")
    /\ UNCHANGED <<inputs, self, DER_arguments, ret, lastCheck, reads,
                   cfgAtLoad, parentAtLoad, pvVars>>

\* Line 71.
setup_check_model_type ==
    /\ pc = "check_model_type"
    /\ Outcome("check_model_type",
               check_model_type(Get(self.DER_model_type), Get(DER_config),
                                Get(DER_parent_config)))
    /\ UNCHANGED <<inputs, self, DER_config, DER_arguments, DER_parent_config,
                   ret, lastCheck, reads, cfgAtLoad, parentAtLoad, pvVars>>

\* Line 72.
setup_update_DER_config ==
    /\ pc = "update_DER_config"
    /\ self' = [self EXCEPT !.DER_config =
                  Some(update_DER_config(Get(self.DER_design_template),
                                         Get(DER_config), Get(DER_parent_config)))]
    /\ Advance("update_DER_config")
    /\ UNCHANGED <<inputs, DER_config, DER_arguments, DER_parent_config, ret,
                   lastCheck, reads, cfgAtLoad, parentAtLoad, pvVars>>

\* Line 73.
setup_check_basic_specs ==
    /\ pc = "check_basic_specs"
    /\ Outcome("check_basic_specs",
               check_basic_specs(templates, Get(self.DER_model_type),
                                 Get(self.DER_config)))
    /\ UNCHANGED <<inputs, self, DER_config, DER_arguments, DER_parent_config,
                   ret, lastCheck, reads, cfgAtLoad, parentAtLoad, pvVars>>

\* Line 75.
setup_return ==
    /\ pc = "return"
    /\ ret' = DER_arguments
    /\ Advance("return")
    /\ UNCHANGED <<inputs, self, DER_config, DER_arguments, DER_parent_config,
                   lastCheck, reads, cfgAtLoad, parentAtLoad, pvVars>>

\* check_basic_specs called on the host once setup_DER has returned or raised.
call_check_basic_specs ==
    /\ pc \in {"done", "failed"}
    /\ lastCheck = Unset
    /\ IsSet(self.DER_model_type)
    /\ lastCheck' =
          IF Get(self.DER_model_type) \in DOMAIN templates
             /\ ~IsSet(self.DER_config)
          THEN Some(Err("AttributeError", "DER_config", {"DER_config"}))
          ELSE Some(check_basic_specs(templates, Get(self.DER_model_type),
                                      self.DER_config[1]))
    /\ UNCHANGED <<inputs, self, DER_config, DER_arguments, DER_parent_config,
                   pc, err, ret, trace, reads, cfgAtLoad, parentAtLoad, pvVars>>

\* ---------------------------------------------------------------- PVModule
\* Numbers are fixed-point integers: temperatures in 1/100 K, insolation in
\* percent, currents in 1e-8 A.
USE_POLYNOMIAL_MPP == TRUE
\* Cell short-circuit current, in 1e-6 A.
Iscr == 8030000
\* Short-circuit current temperature coefficient, in 1e-4 A/K.
Kv == 17
\* Cell reference temperature, in 1/100 K.
T0 == 29815
S_min == 10
S_max == 100
\* self.Tactual and self._MPP_fit_points as fit_MPP_poly assigns them.
FitTactual == 29815
FitPoints == 10
\* The degree passed to np.polyfit.
PolyDegree == 3

\* Keys of the static table module_parameters.
ModuleParameterIDs == {"1", "10", "50", "250"}

\* Iph_calc: (Iscr + Kv*(Tactual - T0)) * (Sinsol/100), in 1e-8 A.
Iph_calc(Tactual, Sinsol) == (Iscr + Kv * (Tactual - T0)) * Sinsol

\* np.linspace(lo, hi, num): num points from lo to hi inclusive.  The
\* division is exact for the num the program passes.
linspace(lo, hi, num) ==
    [i \in 1..num |-> lo + ((i - 1) * (hi - lo)) \div (num - 1)]

\* _Srange of fit_MPP_poly (line 339).
fit_Srange(points) == linspace(S_min, S_max, points + 1)

\* np.polyfit(x, y, deg): deg + 1 coefficients, highest power first; each is
\* represented by the power it multiplies.
polyfit(deg) == [i \in 1..(deg + 1) |-> deg + 1 - i]

\* The values the model draws for the call PVModule.__init__(self, Sinsol):
\* the insolation, the host's MPPT_ENABLE, its parameter_ID, defaults.Tactual,
\* and whether the object the host holds as self.logger can be called.
SinsolValues == {0, 10, 55, 100, 120}
DefaultTactualValues == {29815, 30815}
PVArgsChoices ==
    [Sinsol : SinsolValues, MPPT_ENABLE : BOOLEAN,
     parameter_ID : {"10", "50", "99"}, Tactual : DefaultTactualValues,
     loggerCallable : BOOLEAN]

NewModule ==
    [Sinsol |-> Unset, Tactual |-> Unset, Iph |-> Unset, z |-> Unset,
     MPP_fit_points |-> Unset, module_parameters |-> Unset]

PVInit ==
    /\ pv = NewModule
    /\ pvArgs \in PVArgsChoices
    /\ pvpc = "init"
    /\ Srange = <<>>
    /\ samples = <<>>
    /\ pvErr = NoErr

\* Lines 289-293: module parameters, then Sinsol and Tactual.
pv_init_begin ==
    /\ pvpc = "init"
    /\ IF pvArgs.parameter_ID \in ModuleParameterIDs
       THEN /\ pv' = [pv EXCEPT !.module_parameters = Some(pvArgs.parameter_ID),
                                !.Sinsol = Some(pvArgs.Sinsol),
                                !.Tactual = Some(pvArgs.Tactual)]
            /\ pvpc' = IF pvArgs.MPPT_ENABLE /\ USE_POLYNOMIAL_MPP
                       THEN "fit" ELSE "Iph"
            /\ pvErr' = pvErr
       ELSE /\ pv' = pv
            /\ pvpc' = "failed"
            /\ pvErr' = Err("ValueError", "PV module parameters not available",
                            {pvArgs.parameter_ID})
    /\ UNCHANGED <<pvArgs, Srange, samples, setupVars>>

\* Lines 337-343: the temperature, the grid, and the call self.logger(...),
\* which raises TypeError unless the logger object can be called.
pv_fit_start ==
    /\ pvpc = "fit"
    /\ pv' = [pv EXCEPT !.Tactual = Some(FitTactual),
                        !.MPP_fit_points = Some(FitPoints)]
    /\ Srange' = fit_Srange(FitPoints)
    /\ IF pvArgs.loggerCallable
       THEN pvpc' = "sample" /\ pvErr' = pvErr
       ELSE /\ pvpc' = "failed"
            /\ pvErr' = Err("TypeError", "logger object is not callable",
                            {"logger"})
    /\ UNCHANGED <<pvArgs, samples, setupVars>>

\* Lines 344-351, one iteration: self.Sinsol = S, then Vdcmpp is evaluated
\* (line 346) and evaluated again as the argument of Ppv_calc (line 347);
\* each evaluation and Ppv_calc assign self.Iph.
pv_fit_sample ==
    /\ pvpc = "sample"
    /\ Srange # <<>>
    /\ LET S == Head(Srange)
           at == [S |-> S, T |-> Get(pv.Tactual)]
       IN /\ pv' = [pv EXCEPT !.Sinsol = Some(S),
                              !.Iph = Some(Iph_calc(Get(pv.Tactual), S))]
          /\ samples' = samples \o <<at, at>>
    /\ Srange' = Tail(Srange)
    /\ UNCHANGED <<pvArgs, pvpc, pvErr, setupVars>>

\* Lines 353-356: the fit, and the second call of self.logger.
pv_fit_polyfit ==
    /\ pvpc = "sample"
    /\ Srange = <<>>
    /\ pv' = [pv EXCEPT !.z = Some(polyfit(PolyDegree))]
    /\ pvpc' = "Iph"
    /\ UNCHANGED <<pvArgs, Srange, samples, pvErr, setupVars>>

\* Line 300.
pv_init_finish ==
    /\ pvpc = "Iph"
    /\ pv' = [pv EXCEPT !.Iph =
                 Some(Iph_calc(Get(pv.Tactual), Get(pv.Sinsol)))]
    /\ pvpc' = "done"
    /\ UNCHANGED <<pvArgs, Srange, samples, pvErr, setupVars>>

\* ---------------------------------------------------------- specifications
\* A PVModule that is not being constructed, and a host that is not being
\* set up.
PVIdle ==
    /\ pv = NewModule
    /\ pvArgs = [Sinsol |-> 100, MPPT_ENABLE |-> FALSE, parameter_ID |-> "50",
                 Tactual |-> 29815, loggerCallable |-> FALSE]
    /\ pvpc = "idle"
    /\ Srange = <<>>
    /\ samples = <<>>
    /\ pvErr = NoErr

SetupIdle ==
    /\ templates = CHOOSE r \in TemplateRegistries : TRUE
    /\ configFile = SmallStore
    /\ kwargs = EmptyDict
    /\ hostClass = ThreePhase
    /\ self = NewHost
    /\ DER_config = Unset
    /\ DER_arguments = Unset
    /\ DER_parent_config = Unset
    /\ pc = "idle"
    /\ err = NoErr
    /\ ret = Unset
    /\ lastCheck = Unset
    /\ pre = self
    /\ kwargs0 = kwargs
    /\ trace = <<>>
    /\ reads = <<>>
    /\ cfgAtLoad = Unset
    /\ parentAtLoad = Unset

Init == SetupInit /\ PVIdle

Next ==
    \/ setup_begin
    \/ setup_get_DER_id
    \/ setup_create_template
    \/ setup_get_DER_config
    \/ setup_get_DER_arguments
    \/ setup_name_instance
    \/ setup_initialize_logger
    \/ setup_get_DER_parent_id
    \/ setup_get_DER_parent_config
    \/ setup_fill_sections
    \/ setup_check_model_type
    \/ setup_update_DER_config
    \/ setup_check_basic_specs
    \/ setup_return
    \/ call_check_basic_specs

Spec == Init /\ [][Next]_vars

InitPV == SetupIdle /\ PVInit

NextPV ==
    \/ pv_init_begin
    \/ pv_fit_start
    \/ pv_fit_sample
    \/ pv_fit_polyfit
    \/ pv_init_finish

SpecPV == InitPV /\ [][NextPV]_vars

\* ------------------------------------------------------------------ claims
Last(q) == q[Len(q)]
\* Statement `stage` of setup_DER has run / raised / returned normally.
Ran(stage) == \E i \in 1..Len(trace) : trace[i] = stage
Failed(stage) == pc = "failed" /\ trace # <<>> /\ Last(trace) = stage
Completed(stage) == Ran(stage) /\ ~Failed(stage)

\* kwargs and the device configuration hold only values of the declared types.
CorrectlyTyped(cfg, kw) ==
    /\ \A k \in SpecKeys \cap DOMAIN kw :
          IsInstance(kw[k], DER_argument_spec[k].type)
    /\ \A k \in SpecKeys \cap Keys(cfg) :
          IsInstance(CfgValue(cfg, k), DER_argument_spec[k].type)

\* C1: get_DER_arguments gives kwargs priority over the configuration and the
\* configuration priority over the defaults: for correctly typed kwargs and
\* configuration the merge succeeds, and every key of the registry resolves
\* to the kwargs value if it is in kwargs, else to the configuration value
\* if it is in the configuration, else to the default if one is declared.
C1_MergePriority ==
    (Ran("get_DER_arguments") /\ CorrectlyTyped(Get(cfgAtLoad), kwargs)) =>
        /\ Completed("get_DER_arguments")
        /\ \A k \in SpecKeys :
              LET args == Get(DER_arguments)
              IN IF k \in DOMAIN kwargs
                 THEN k \in DOMAIN args /\ args[k] = kwargs[k]
                 ELSE IF k \in Keys(Get(cfgAtLoad))
                 THEN k \in DOMAIN args /\ args[k] = CfgValue(Get(cfgAtLoad), k)
                 ELSE IF DER_argument_spec[k].default_value # NoneV
                 THEN k \in DOMAIN args
                      /\ args[k] = DER_argument_spec[k].default_value
                 ELSE k \notin DOMAIN args

\* The four comparisons of the structural check, by the field compared.
StructuralFields == {"n_phases", "phases", "n_ODE", "initial_states"}
FieldMatches(f, T, bs) ==
    CASE f = "n_phases" ->
           "n_phases" \in DOMAIN bs /\ bs["n_phases"] = Num(T.n_phases)
      [] f = "phases" ->
           "n_phases" \in DOMAIN bs /\ bs["n_phases"] = Num(Len(T.phases))
      [] f = "n_ODE" ->
           "n_ODE" \in DOMAIN bs /\ bs["n_ODE"] = Num(T.n_ODE)
      [] f = "initial_states" ->
           "n_ODE" \in DOMAIN bs /\ bs["n_ODE"] = Num(Len(T.initial_states))
OnlyMismatch(f, T, bs) ==
    /\ ~FieldMatches(f, T, bs)
    /\ \A g \in StructuralFields \ {f} : FieldMatches(g, T, bs)
\* self.DER_config['basic_specs'], empty while the host has none.
HostBasicSpecs ==
    IF IsSet(self.DER_config) /\ "basic_specs" \in DOMAIN Get(self.DER_config)
    THEN Get(self.DER_config)["basic_specs"] ELSE EmptyDict
\* `e` is the outcome the claim requires of check_basic_specs.
StructuralOutcome(e) ==
    IF hostClass \in DOMAIN templates
    THEN LET T == templates[hostClass]
             bs == HostBasicSpecs
         IN /\ e = NoErr <=> \A f \in StructuralFields : FieldMatches(f, T, bs)
            /\ \A f \in StructuralFields :
                  OnlyMismatch(f, T, bs) => e.what = f /\ e.names = {f}
    ELSE e # NoErr

\* C2: check_basic_specs succeeds iff the configuration's n_phases equals the
\* template's n_phases and the length of its phases list, and its n_ODE
\* equals the template's n_ODE and the length of its initial_states; a single
\* mismatched field fails with an error naming that field; a model type that
\* is not in the template registry always fails.
C2_StructuralCheck ==
    /\ Ran("check_basic_specs") =>
          StructuralOutcome(IF Failed("check_basic_specs") THEN err ELSE NoErr)
    /\ IsSet(lastCheck) => StructuralOutcome(Get(lastCheck))

C2_Witness ==
    /\ Failed("check_basic_specs")
    /\ OnlyMismatch("phases", templates[hostClass], HostBasicSpecs)

\* C3: get_DER_config returns the configuration stored under the ID when the
\* ID is a key of the file; for an ID that is not a key it raises a KeyError
\* listing exactly the file's IDs and returns no configuration.
C3_LoadConfig ==
    Ran("get_DER_config") =>
        LET id == Get(self.parameter_ID)
        IN IF id.ty = "str" /\ id.s \in DOMAIN configFile
           THEN /\ Completed("get_DER_config")
                /\ cfgAtLoad = Some(configFile[id.s])
           ELSE /\ Failed("get_DER_config")
                /\ err.exc = "KeyError"
                /\ err.names = DOMAIN configFile
                /\ DER_config = Unset

C3_Witness ==
    /\ Failed("get_DER_config")
    /\ Get(self.parameter_ID) = Str("99")
    /\ configFile = MainStore

\* The attributes of the host and the statements that assign them.
Assigners(f) ==
    CASE f = "events" -> {"begin"}
      [] f = "DER_model_type" -> {"begin"}
      [] f = "parameter_ID" -> {"get_DER_id"}
      [] f = "DER_design_template" -> {"create_template"}
      [] f = "DER_config" -> {"create_template", "update_DER_config"}
      [] f = "DER_parent_ID" -> {"get_DER_parent_id"}
      [] f = "name" -> {"name_instance"}
      [] f = "logger" -> {"initialize_logger"}

\* C4 (as claimed): when setup_DER raises, every attribute of the host is as
\* it was before the call.
C4_AtomicFailure == pc = "failed" => self = pre

\* C4 (amended): when setup_DER raises it returns nothing, events and the
\* model type hold the values of this call, every attribute assigned by a
\* statement that completed before the failing one is assigned, and every
\* other attribute is as it was before the call.
C4_FailureKeepsCompletedStages ==
    pc = "failed" =>
        /\ ret = Unset
        /\ self.events = Some(SimulationEvents)
        /\ self.DER_model_type = Some(hostClass)
        /\ \A f \in DOMAIN self :
              IF \E st \in Assigners(f) : Completed(st)
              THEN IsSet(self[f])
              ELSE self[f] = pre[f]

C4_Witness ==
    /\ Failed("check_basic_specs")
    /\ self.DER_config # pre.DER_config
    /\ self.name # pre.name

\* The statements of setup_DER that consume the device configuration.
ConsumingStages ==
    {"get_DER_arguments", "name_instance", "initialize_logger",
     "update_DER_config"}
RanBefore(stage, i) == \E j \in 1..(i - 1) : trace[j] = stage

\* C5 (as claimed): every statement that consumes the device configuration
\* runs only after the model-type check and the structural check succeeded,
\* and the arguments are returned only after both succeeded.
C5_ValidatedBeforeUse ==
    /\ \A i \in 1..Len(trace) :
          trace[i] \in ConsumingStages =>
              RanBefore("check_model_type", i) /\ RanBefore("check_basic_specs", i)
    /\ IsSet(ret) =>
          Completed("check_model_type") /\ Completed("check_basic_specs")

\* C5 (amended): the statements of setup_DER run in the fixed order of
\* Stages, stopping at the first that raises: the argument merge, the naming
\* and the logger initialisation run before either check, update_DER_config
\* runs after the model-type check succeeded and before the structural check,
\* and the arguments are returned only after both checks succeeded.
C5_FixedStageOrder ==
    /\ Len(trace) <= Len(Stages)
    /\ \A i \in 1..Len(trace) : trace[i] = Stages[i]
    /\ IF trace = <<>> THEN pc = "begin"
       ELSE pc = "failed" \/ pc = NextStage(Last(trace))
    /\ IsSet(ret) =>
          /\ pc = "done"
          /\ Completed("check_model_type") /\ Completed("check_basic_specs")
          /\ ret = DER_arguments

C5_Witness ==
    /\ pc = "done"
    /\ IsSet(ret)
    /\ trace = Stages

\* The IDs on the parent chain of device `id` in `store`: its parent, the
\* parent's parent, and so on, as far as the references lead.
RECURSIVE Ancestors(_, _, _)
Ancestors(store, id, seen) ==
    IF id \notin DOMAIN store \/ id \in seen THEN {}
    ELSE LET p == get_DER_parent_id(store[id])
         IN IF Truthy(p) /\ p.ty = "str"
            THEN {p.s} \cup Ancestors(store, p.s, seen \cup {id})
            ELSE {}

IdsRead == {reads[i].s : i \in 1..Len(reads)}

\* C6 (as claimed): a declared parent_config is loaded recursively, so every
\* configuration on the device's parent chain is loaded; with no
\* parent_config the parent configuration is empty.
C6_ParentChainLoaded ==
    Completed("get_DER_parent_config") =>
        LET id == Get(self.parameter_ID).s
        IN /\ Ancestors(configFile, id, {}) \subseteq IdsRead
           /\ Ancestors(configFile, id, {}) = {} => parentAtLoad = Some(EmptyCfg)

\* C6 (amended): a declared, non-empty parent_config makes setup_DER load
\* exactly that one configuration from the file as the parent configuration,
\* failing iff the ID is not in the file; the parent's own parent_config is
\* not resolved.  With no parent_config, or an empty one, nothing more is
\* read and the parent configuration is empty.
C6_ParentLoadedOnce ==
    Ran("get_DER_parent_config") =>
        LET id == Get(self.parameter_ID)
            declared == IF "parent_config" \in DOMAIN Get(cfgAtLoad).top
                        THEN Get(cfgAtLoad).top["parent_config"] ELSE Str("")
        IN /\ self.DER_parent_ID = Some(declared)
           /\ IF declared.s # ""
              THEN /\ reads = <<id, declared>>
                   /\ Failed("get_DER_parent_config")
                         <=> declared.s \notin DOMAIN configFile
                   /\ Completed("get_DER_parent_config")
                         => parentAtLoad = Some(configFile[declared.s])
              ELSE /\ reads = <<id>>
                   /\ Completed("get_DER_parent_config")
                   /\ parentAtLoad = Some(EmptyCfg)

\* The device's parent was loaded and itself names a parent in the file.
C6_Witness ==
    /\ Completed("get_DER_parent_config")
    /\ IsSet(parentAtLoad)
    /\ "parent_config" \in DOMAIN Get(parentAtLoad).top
    /\ Get(parentAtLoad).top["parent_config"].s \in DOMAIN configFile
    /\ Get(parentAtLoad).top["parent_config"].s \notin IdsRead

\* C8 (as claimed): after the argument merge and after the template sections
\* are filled in, the device configuration and the parent configuration hold
\* exactly the keys and values they were loaded with, and kwargs is unchanged.
C8_ConfigsNeverMutated ==
    /\ kwargs = kwargs0
    /\ Ran("get_DER_arguments") => DER_config = cfgAtLoad
    /\ Ran("fill_sections") =>
          DER_config = cfgAtLoad /\ DER_parent_config = parentAtLoad

\* `now` is `loaded` plus an empty section for every section of template T
\* that `loaded` lacks, and nothing else.
GainedOnlySections(T, loaded, now) ==
    /\ now.top = loaded.top
    /\ DOMAIN now.sec = DOMAIN loaded.sec \cup (T.components \ Keys(loaded))
    /\ \A c \in DOMAIN now.sec :
          now.sec[c] = IF c \in DOMAIN loaded.sec THEN loaded.sec[c]
                       ELSE EmptyDict

\* C8 (amended): the argument merge leaves the device configuration as it
\* was loaded and kwargs is never changed; filling in the template sections
\* updates the device and the parent configuration in place, adding an empty
\* section for every template section they lack and changing nothing else.
C8_ConfigsOnlyGainSections ==
    /\ kwargs = kwargs0
    /\ (IsSet(cfgAtLoad) /\ ~Ran("fill_sections")) => DER_config = cfgAtLoad
    /\ (IsSet(parentAtLoad) /\ ~Ran("fill_sections"))
          => DER_parent_config = parentAtLoad
    /\ Ran("fill_sections") =>
          /\ GainedOnlySections(Get(self.DER_design_template),
                                Get(cfgAtLoad), Get(DER_config))
          /\ GainedOnlySections(Get(self.DER_design_template),
                                Get(parentAtLoad), Get(DER_parent_config))

\* Sections were added to a device configuration that had some already.
C8_Witness ==
    /\ Ran("fill_sections")
    /\ DER_config # cfgAtLoad
    /\ DOMAIN Get(cfgAtLoad).sec # {}
    /\ Get(parentAtLoad) # EmptyCfg

\* The model type the configurations declare: the device's, else the
\* parent's, else none.
DeclaredModelType ==
    LET dev == Section(Get(DER_config), "basic_specs")
        par == Section(Get(DER_parent_config), "basic_specs")
    IN IF "model_type" \in DOMAIN dev THEN <<dev["model_type"].s>>
       ELSE IF "model_type" \in DOMAIN par THEN <<par["model_type"].s>>
       ELSE <<>>

\* C9: check_model_type takes the declared model type from the device
\* configuration's basic_specs if present, else from the parent's; it
\* succeeds exactly when the declared type equals the host's type, raises a
\* mismatch error when they differ, and raises when neither declares one.
C9_ModelTypeCheck ==
    Ran("check_model_type") =>
        /\ Completed("check_model_type")
              <=> DeclaredModelType = <<hostClass>>
        /\ (DeclaredModelType # <<>> /\ DeclaredModelType # <<hostClass>>)
              => Failed("check_model_type") /\ err.what = "model type mismatch"
        /\ DeclaredModelType = <<>>
              => Failed("check_model_type") /\ err.what = "model type not found"

\* The device and its parent declare different types; the device's decides.
C9_Witness ==
    /\ Completed("check_model_type")
    /\ "model_type" \in DOMAIN Section(Get(DER_config), "basic_specs")
    /\ "model_type" \in DOMAIN Section(Get(DER_parent_config), "basic_specs")
    /\ Section(Get(DER_parent_config), "basic_specs")["model_type"].s # hostClass

\* ----------------------------------------------------------- PVModule claims
InsolationsSampled == {samples[i].S : i \in 1..Len(samples)}
TemperaturesSampled == {samples[i].T : i \in 1..Len(samples)}
EquallySpaced(S, lo, hi, num) ==
    S = {lo + ((i - 1) * (hi - lo)) \div (num - 1) : i \in 1..num}

\* C7: fit_MPP_poly evaluates the MPP voltage at exactly 10 equally spaced
\* insolation samples between the minimum and the maximum insolation, all at
\* one reference temperature, and stores exactly 4 coefficients.
C7_TenSamplesFourCoefficients ==
    IsSet(pv.z) =>
        /\ Cardinality(InsolationsSampled) = 10
        /\ \E num \in 2..20 : EquallySpaced(InsolationsSampled, S_min, S_max, num)
        /\ Cardinality(TemperaturesSampled) = 1
        /\ Len(Get(pv.z)) = 4

\* C10: when construction finishes, the module's insolation is the one the
\* caller supplied and its photocurrent is that of this insolation at the
\* module temperature, whether or not the fit ran.
C10_InsolationKept ==
    pvpc = "done" =>
        /\ pv.Sinsol = Some(pvArgs.Sinsol)
        /\ pv.Iph = Some(Iph_calc(Get(pv.Tactual), pvArgs.Sinsol))

=============================================================================
